---- MODULE Spec2Model ----
(***************************************************************************)
(* Model of scripts/clothes.py: the concurrent page scraper.               *)
(*                                                                         *)
(* main() resolves the page count with one metadata request, creates one   *)
(* fetch_page coroutine per page, and drains them with                     *)
(* asyncio.as_completed.  Every fetch_page runs its attempts under one     *)
(* shared asyncio.Semaphore(CONCURRENCY).  The tasks run on one event      *)
(* loop: a step of the model is the code between two suspension points     *)
(* (an await that can yield to the loop).                                  *)
(***************************************************************************)
EXTENDS Integers, Sequences, FiniteSets, Bags, TLC

(* ---- program constants ------------------------------------------------ *)

\* clothes.py:20
PER_PAGE == 24

\* clothes.py:23
RETRY_LIMIT == 3

(* ---- bounds of the model ---------------------------------------------- *)

\* The largest page count the metadata response can lead to.
MaxPages == 2

\* The permits of the semaphore.  clothes.py:22 sets CONCURRENCY = 20; the
\* model takes a permit count below MaxPages, so that tasks contend for permits.
CONCURRENCY == 1

\* The item counts (meta.total) the upstream may report: 0, and for every page
\* count up to MaxPages the smallest total giving it (the last page partial).
Totals == {0} \cup {(n - 1) * PER_PAGE + 1 : n \in 1..MaxPages}

(* ---- the upstream ------------------------------------------------------ *)

Min(a, b) == IF a <= b THEN a ELSE b

\* A price of a raw record's default_offer: the key is absent (offer.get
\* returns None), or it holds the number n.
NoPrice == [some |-> FALSE, v |-> 0]

Price(n) == [some |-> TRUE, v |-> n]

\* The retail prices and the old prices found in the catalogue.
RetailPrices == << NoPrice, Price(0), Price(80), Price(100) >>

OldPrices ==
    << NoPrice, Price(0), Price(80), Price(100), Price(90), Price(30) >>

\* The raw record with identifier id: the records of a page go through every
\* pair of a retail price and an old price.
RawRecord(id) ==
    [id           |-> id,
     retail_price |-> RetailPrices[((id - 1) % Len(RetailPrices)) + 1],
     old_price    |->
         OldPrices[(((id - 1) \div Len(RetailPrices)) % Len(OldPrices)) + 1]]

\* The raw records the upstream holds for page `page` of a catalogue of
\* `items` records: record i is RawRecord(i).
RawPage(page, items) ==
    LET first == (page - 1) * PER_PAGE + 1
        last  == Min(page * PER_PAGE, items)
    IN  IF last < first THEN << >>
        ELSE [i \in 1..(last - first + 1) |-> RawRecord(first + i - 1)]

\* A JSON body of a page response: with a "products" array, or without one.
PageBodies(page, items) ==
    { [has_products |-> TRUE,  products |-> RawPage(page, items)],
      [has_products |-> FALSE, products |-> << >>] }

\* The outcomes of session.get: it raises (transport error, timeout), or a
\* response arrives with status 200 or with another status.
GetOutcomes == {"error", "200", "http"}

\* The bodies of the metadata response: not JSON, JSON without meta.total, or
\* JSON carrying meta.total = items.
MetaBodies ==
    { [kind |-> k, items |-> 0] : k \in {"notjson", "nometa"} }
    \cup { [kind |-> "total", items |-> t] : t \in Totals }

(* ---- state -------------------------------------------------------------- *)

VARIABLES
    phase,        \* where main() is
    resp,         \* get_total_pages' resp: "none", or how session.get ended
    total,        \* get_total_pages' total: data["meta"]["total"]
    total_pages,  \* main's total_pages
    tasks,        \* main's tasks: the page index of each coroutine created
    sem,          \* semaphore._value: the free permits
    holders,      \* the tasks inside `async with semaphore`
    pc,           \* per task: where its fetch_page coroutine is
    attempt,      \* per task: fetch_page's loop variable
    result,       \* per task: the list fetch_page returned
    completed,    \* as_completed's queue: finished tasks not yet consumed
    rows,         \* main's rows
    done,         \* main's done
    sink,         \* the rows written to OUTPUT_CSV
    taken,        \* per task: how often the loop consumed its list (history)
    log,          \* per task: its events so far (history): "call" a request
                  \* sent, "fail"/"ok" how the call ended, "delay" a retry
                  \* delay slept
    served,       \* per task: the body of its successful response (history)
    progress      \* the progress lines main has printed

vars == << phase, resp, total, total_pages, tasks, sem, holders, pc, attempt,
           result, completed, rows, done, sink, taken, log, served, progress >>

\* What only main writes after the tasks are created.
mainVars ==
    << phase, resp, total, total_pages, tasks, rows, done, sink, taken,
       progress >>

\* What only the fetch_page tasks write.
taskVars == << sem, holders, pc, attempt, result, log, served >>

NoBody == [has_products |-> FALSE, products |-> << >>]

Unwritten == [written |-> FALSE, rows |-> << >>]

TaskIds == DOMAIN tasks

\* Task i is in its network call: awaiting session.get or resp.json.
InCall(i) == pc[i] \in {"get", "json"}

(* ---- pure helpers of the code ------------------------------------------ *)

\* The truth value Python gives a price: None and 0 are false.
Truthy(x) == x.some /\ x.v # 0

\* round(num / den, 0) for num >= 0 and den > 0: the nearest integer, a tie
\* going to the even one.
RoundHalfEven(num, den) ==
    LET q == num \div den
        r == num % den
    IN  IF 2 * r < den THEN q
        ELSE IF 2 * r > den THEN q + 1
        ELSE IF q % 2 = 0 THEN q ELSE q + 1

\* discount_pct of parse_product, in tenths of a percent:
\* round((1 - retail_price / old_price) * 100, 1) is the tenths nearest to
\* (old_price - retail_price) * 1000 / old_price.
Discount(retail_price, old_price) ==
    IF Truthy(retail_price) /\ Truthy(old_price)
       /\ old_price.v > retail_price.v
    THEN RoundHalfEven((old_price.v - retail_price.v) * 1000, old_price.v)
    ELSE 0

\* parse_product: the output record of one raw record (its identifier, its
\* prices and the discount derived from them).
parse_product(p) ==
    [id           |-> p.id,
     retail_price |-> p.retail_price,
     old_price    |-> p.old_price,
     discount_pct |-> Discount(p.retail_price, p.old_price)]

\* Mutant of ParseBody: the last product of the body is left out.
ParseBodyDropsLast(data) ==
    LET products == IF data.has_products THEN data.products ELSE << >>
    IN  [j \in 1..(Len(products) - 1) |-> parse_product(products[j])]

\* [parse_product(p) for p in data.get("products", [])]
ParseBody(data) ==
    LET products == IF data.has_products THEN data.products ELSE << >>
    IN  [j \in 1..Len(products) |-> parse_product(products[j])]

\* Mutant of PageCount: total // PER_PAGE + 1, one page too many when total is
\* a multiple of PER_PAGE.
PageCountPlusOne(t) == t \div PER_PAGE + 1

\* pages = (total + PER_PAGE - 1) // PER_PAGE
PageCount(t) == (t + PER_PAGE - 1) \div PER_PAGE

\* Mutant of PageRange: range(total_pages), the indexes from 0.
PageRangeFromZero(n) == [i \in 1..n |-> i - 1]

\* range(1, total_pages + 1), as the list of page indexes
PageRange(n) == [i \in 1..n |-> i]

\* Mutant of CanAcquire: the gate lets every task in.
CanAcquireAlways(s) == TRUE

\* `async with semaphore` is entered only when a permit is free.
CanAcquire(s) == s > 0

\* Mutant of HasNext: range(1, RETRY_LIMIT), one attempt short.
HasNextShort(a) == a + 1 < RETRY_LIMIT

\* for attempt in range(1, RETRY_LIMIT + 1): an iteration follows attempt a
HasNext(a) == a + 1 < RETRY_LIMIT + 1

\* Mutant of MayRetry: a delay after every failed attempt, the last included.
MayRetryAlways(a) == a <= RETRY_LIMIT

\* Mutant of MayRetry: no delay after the attempt before the last.
MayRetryOffByOne(a) == a + 1 < RETRY_LIMIT

\* if attempt < RETRY_LIMIT
MayRetry(a) == a < RETRY_LIMIT

\* Mutant of ShouldReport: a line at every 100th page only.
ShouldReportEveryHundredth(d, pages) == d % 100 = 0

\* if done % 100 == 0 or done == total_pages
ShouldReport(d, pages) == d % 100 = 0 \/ d = pages

\* The progress line: "{done}/{total_pages} pages | {len(rows):,} products".
ProgressLine(d, pages, rs) ==
    [done |-> d, total_pages |-> pages, products |-> Len(rs)]

\* Mutant of Extend: rows = page_rows, the earlier pages are lost.
ExtendAssigns(rs, page_rows) == page_rows

\* rows.extend(page_rows)
Extend(rs, page_rows) == rs \o page_rows

(* ---- Init ---------------------------------------------------------------- *)

\* The state at the start of main, its semaphore constructed with `permits`
\* permits.
InitWith(permits) ==
    /\ phase = "Idle"
    /\ resp = "none"
    /\ total = 0
    /\ total_pages = 0
    /\ tasks = << >>
    /\ sem = permits
    /\ holders = {}
    /\ pc = << >>
    /\ attempt = << >>
    /\ result = << >>
    /\ completed = << >>
    /\ rows = << >>
    /\ done = 0
    /\ sink = Unwritten
    /\ taken = << >>
    /\ log = << >>
    /\ served = << >>
    /\ progress = << >>

\* semaphore = asyncio.Semaphore(CONCURRENCY)
Init == InitWith(CONCURRENCY)

(* ---- main ---------------------------------------------------------------- *)

\* main up to the first await of get_total_pages: the metadata request is sent.
StartRun ==
    /\ phase = "Idle"
    /\ phase' = "Resolving"
    /\ UNCHANGED << resp, total, total_pages, tasks, rows, done, sink, taken,
                    completed, progress, taskVars >>

\* session.get of get_total_pages ends with o.  An exception leaves
\* get_total_pages and main.  A response of any status is read as JSON: its
\* status is not looked at.
MetaGet(o) ==
    /\ phase = "Resolving"
    /\ resp = "none"
    /\ IF o = "error"
       THEN phase' = "Aborted" /\ UNCHANGED resp
       ELSE resp' = o /\ UNCHANGED phase
    /\ UNCHANGED << total, total_pages, tasks, rows, done, sink, taken,
                    completed, progress, taskVars >>

\* resp.json raises on a body that is not JSON, data["meta"]["total"] on one
\* without meta.total.
MetaRaises(body) == body.kind # "total"

\* Mutant of MetaJson: the products of the metadata response are kept as the
\* outcome of page 1, whose task makes no request of its own.
MetaJsonReusesBody(body) ==
    /\ phase = "Resolving"
    /\ resp # "none"
    /\ resp' = "none"
    /\ IF MetaRaises(body)
       THEN /\ phase' = "Aborted"
            /\ UNCHANGED << total, total_pages, tasks, pc, attempt, result,
                            taken, log, served, completed >>
       ELSE /\ phase' = "Fetching"
            /\ total' = body.items
            /\ total_pages' = PageCount(total')
            /\ tasks' = PageRange(total_pages')
            /\ pc' = [i \in DOMAIN tasks' |->
                          IF i = 1 THEN "returned" ELSE "acquire"]
            /\ attempt' = [i \in DOMAIN tasks' |-> 1]
            /\ result' = [i \in DOMAIN tasks' |->
                              IF i = 1
                              THEN ParseBody([has_products |-> TRUE,
                                              products |-> RawPage(1, total')])
                              ELSE << >>]
            /\ completed' = IF total_pages' >= 1 THEN << 1 >> ELSE << >>
            /\ taken' = [i \in DOMAIN tasks' |-> 0]
            /\ log' = [i \in DOMAIN tasks' |-> << >>]
            /\ served' = [i \in DOMAIN tasks' |-> NoBody]
    /\ UNCHANGED << sem, holders, rows, done, sink, progress >>

\* resp.json of get_total_pages ends with `body`.  get_total_pages raises, and
\* the exception leaves main; or it returns the page count, and main creates
\* the coroutines and enters the as_completed loop.
MetaJson(body) ==
    /\ phase = "Resolving"
    /\ resp # "none"
    /\ resp' = "none"
    /\ IF MetaRaises(body)
       THEN /\ phase' = "Aborted"
            /\ UNCHANGED << total, total_pages, tasks, pc, attempt, result,
                            taken, log, served >>
       ELSE /\ phase' = "Fetching"
            /\ total' = body.items
            /\ total_pages' = PageCount(total')
            /\ tasks' = PageRange(total_pages')
            /\ pc' = [i \in DOMAIN tasks' |-> "acquire"]
            /\ attempt' = [i \in DOMAIN tasks' |-> 1]
            /\ result' = [i \in DOMAIN tasks' |-> << >>]
            /\ taken' = [i \in DOMAIN tasks' |-> 0]
            /\ log' = [i \in DOMAIN tasks' |-> << >>]
            /\ served' = [i \in DOMAIN tasks' |-> NoBody]
    /\ UNCHANGED << sem, holders, completed, rows, done, sink, progress >>

\* One iteration of `for coro in asyncio.as_completed(tasks)`: the next
\* finished task's list is appended and counted.
Consume ==
    /\ phase = "Fetching"
    /\ completed # << >>
    /\ rows' = Extend(rows, result[Head(completed)])
    /\ done' = done + 1
    /\ completed' = Tail(completed)
    /\ taken' = [taken EXCEPT ![Head(completed)] = @ + 1]
    /\ progress' =
           IF ShouldReport(done', total_pages)
           THEN Append(progress, ProgressLine(done', total_pages, rows'))
           ELSE progress
    /\ UNCHANGED << phase, resp, total, total_pages, tasks, sink, taskVars >>

\* Mutant of ExitLoop: the end of the loop is tested in the loop body, after
\* an outcome was consumed.
ExitLoopAfterAnOutcome ==
    /\ phase = "Fetching"
    /\ done = Len(tasks)
    /\ done > 0
    /\ phase' = "Aggregating"
    /\ UNCHANGED << resp, total, total_pages, tasks, rows, done, sink, taken,
                    completed, progress, taskVars >>

\* Mutant of ExitLoop: the loop ends as soon as no finished task is waiting,
\* whether or not every task has been yielded.
ExitLoopWhenDrained ==
    /\ phase = "Fetching"
    /\ completed = << >>
    /\ phase' = "Aggregating"
    /\ UNCHANGED << resp, total, total_pages, tasks, rows, done, sink, taken,
                    completed, progress, taskVars >>

\* as_completed has yielded every task: the loop ends and the session closes.
ExitLoop ==
    /\ phase = "Fetching"
    /\ done = Len(tasks)
    /\ phase' = "Aggregating"
    /\ UNCHANGED << resp, total, total_pages, tasks, rows, done, sink, taken,
                    completed, progress, taskVars >>

\* Mutant of WriteCsv: the header is written, writer.writerows(rows) is not.
WriteCsvHeaderOnly ==
    /\ phase = "Aggregating"
    /\ sink' = [written |-> TRUE, rows |-> << >>]
    /\ phase' = "Done"
    /\ UNCHANGED << resp, total, total_pages, tasks, rows, done, taken,
                    completed, progress, taskVars >>

\* The rows are written to OUTPUT_CSV and main returns.
WriteCsv ==
    /\ phase = "Aggregating"
    /\ sink' = [written |-> TRUE, rows |-> rows]
    /\ phase' = "Done"
    /\ UNCHANGED << resp, total, total_pages, tasks, rows, done, taken,
                    completed, progress, taskVars >>

(* ---- fetch_page -------------------------------------------------------- *)

\* `async with semaphore`: task i takes a permit and sends its request.
Acquire(i) ==
    /\ pc[i] = "acquire"
    /\ CanAcquire(sem)
    /\ sem' = sem - 1
    /\ holders' = holders \cup {i}
    /\ pc' = [pc EXCEPT ![i] = "get"]
    /\ log' = [log EXCEPT ![i] = Append(@, "call")]
    /\ UNCHANGED << mainVars, attempt, result, completed, served >>

\* The `for attempt` loop of task i, its iteration over: the next attempt
\* begins, or the loop is over and fetch_page returns [].
Iterate(i) ==
    IF HasNext(attempt[i])
    THEN /\ attempt' = [attempt EXCEPT ![i] = @ + 1]
         /\ pc' = [pc EXCEPT ![i] = "acquire"]
         /\ UNCHANGED << result, completed >>
    ELSE /\ pc' = [pc EXCEPT ![i] = "returned"]
         /\ result' = [result EXCEPT ![i] = << >>]
         /\ completed' = Append(completed, i)
         /\ UNCHANGED attempt

\* Mutant of FailedAttempt: the retry delay is slept inside the
\* `async with semaphore` block, the permit still held.
FailedAttemptSleepInGate(i) ==
    /\ log' = [log EXCEPT ![i] = Append(@, "fail")]
    /\ IF MayRetry(attempt[i])
       THEN /\ pc' = [pc EXCEPT ![i] = "sleep"]
            /\ UNCHANGED << sem, holders, attempt, result, completed >>
       ELSE /\ sem' = sem + 1
            /\ holders' = holders \ {i}
            /\ Iterate(i)
    /\ UNCHANGED << mainVars, served >>

\* Mutant of FailedAttempt: the last failed attempt raises instead of falling
\* through to `return []`, and the exception ends main.
FailedAttemptRaises(i) ==
    /\ sem' = sem + 1
    /\ holders' = holders \ {i}
    /\ log' = [log EXCEPT ![i] = Append(@, "fail")]
    /\ IF MayRetry(attempt[i])
       THEN /\ pc' = [pc EXCEPT ![i] = "sleep"]
            /\ UNCHANGED << phase, attempt, result, completed >>
       ELSE /\ pc' = [pc EXCEPT ![i] = "returned"]
            /\ phase' = "Aborted"
            /\ UNCHANGED << attempt, result, completed >>
    /\ UNCHANGED << resp, total, total_pages, tasks, rows, done, sink, taken,
                    progress, served >>

\* Mutant of FailedAttempt: the permit is released on the return path only, a
\* failed attempt keeps it.
FailedAttemptKeepsPermit(i) ==
    /\ log' = [log EXCEPT ![i] = Append(@, "fail")]
    /\ IF MayRetry(attempt[i])
       THEN /\ pc' = [pc EXCEPT ![i] = "sleep"]
            /\ UNCHANGED << attempt, result, completed >>
       ELSE Iterate(i)
    /\ UNCHANGED << mainVars, sem, holders, served >>

\* The end of a failed attempt of task i: the `async with semaphore` block is
\* left, which releases the permit; then the task sleeps, or goes on with the
\* loop at once.
FailedAttempt(i) ==
    /\ sem' = sem + 1
    /\ holders' = holders \ {i}
    /\ log' = [log EXCEPT ![i] = Append(@, "fail")]
    /\ IF MayRetry(attempt[i])
       THEN /\ pc' = [pc EXCEPT ![i] = "sleep"]
            /\ UNCHANGED << attempt, result, completed >>
       ELSE Iterate(i)
    /\ UNCHANGED << mainVars, served >>

\* Mutant of GetResponse: `except` catches only the HTTP statuses' path; an
\* exception of session.get leaves fetch_page and ends main.
GetResponseRaises(i, o) ==
    /\ pc[i] = "get"
    /\ IF o = "200"
       THEN /\ pc' = [pc EXCEPT ![i] = "json"]
            /\ UNCHANGED << mainVars, sem, holders, attempt, result,
                            completed, log, served >>
       ELSE IF o = "http"
       THEN FailedAttempt(i)
       ELSE /\ phase' = "Aborted"
            /\ sem' = sem + 1
            /\ holders' = holders \ {i}
            /\ pc' = [pc EXCEPT ![i] = "returned"]
            /\ log' = [log EXCEPT ![i] = Append(@, "fail")]
            /\ UNCHANGED << resp, total, total_pages, tasks, rows, done, sink,
                            taken, progress, attempt, result, completed,
                            served >>

\* session.get of task i ends with o: with status 200 the body is awaited;
\* another status and an exception are failed attempts.
GetResponse(i, o) ==
    /\ pc[i] = "get"
    /\ IF o = "200"
       THEN /\ pc' = [pc EXCEPT ![i] = "json"]
            /\ UNCHANGED << mainVars, sem, holders, attempt, result,
                            completed, log, served >>
       ELSE FailedAttempt(i)

\* Mutant of Success: the list is returned with the permit still held.
SuccessKeepsPermit(i, data) ==
    /\ log' = [log EXCEPT ![i] = Append(@, "ok")]
    /\ served' = [served EXCEPT ![i] = data]
    /\ result' = [result EXCEPT ![i] = ParseBody(data)]
    /\ pc' = [pc EXCEPT ![i] = "returned"]
    /\ completed' = Append(completed, i)
    /\ UNCHANGED << mainVars, sem, holders, attempt >>

\* Mutant of Success: the parsed list is built but not returned, and the loop
\* goes on as after a failed attempt.
SuccessNoReturn(i, data) ==
    /\ sem' = sem + 1
    /\ holders' = holders \ {i}
    /\ log' = [log EXCEPT ![i] = Append(@, "ok")]
    /\ served' = [served EXCEPT ![i] = data]
    /\ IF MayRetry(attempt[i])
       THEN /\ pc' = [pc EXCEPT ![i] = "sleep"]
            /\ UNCHANGED << attempt, result, completed >>
       ELSE Iterate(i)
    /\ UNCHANGED mainVars

\* Mutant of Success: the task appends its parsed list to main's rows itself,
\* and returns it as well.
SuccessAppendsRows(i, data) ==
    /\ sem' = sem + 1
    /\ holders' = holders \ {i}
    /\ log' = [log EXCEPT ![i] = Append(@, "ok")]
    /\ served' = [served EXCEPT ![i] = data]
    /\ result' = [result EXCEPT ![i] = ParseBody(data)]
    /\ rows' = rows \o ParseBody(data)
    /\ pc' = [pc EXCEPT ![i] = "returned"]
    /\ completed' = Append(completed, i)
    /\ UNCHANGED << phase, resp, total, total_pages, tasks, done, sink, taken,
                    progress, attempt >>

\* resp.json of task i has returned `data`: the parsed products are returned,
\* which releases the permit.
Success(i, data) ==
    /\ sem' = sem + 1
    /\ holders' = holders \ {i}
    /\ log' = [log EXCEPT ![i] = Append(@, "ok")]
    /\ served' = [served EXCEPT ![i] = data]
    /\ result' = [result EXCEPT ![i] = ParseBody(data)]
    /\ pc' = [pc EXCEPT ![i] = "returned"]
    /\ completed' = Append(completed, i)
    /\ UNCHANGED << mainVars, attempt >>

\* Mutant of ReadJson: an exception of parse_product on the last record is
\* caught per record, and the records parsed before it are returned.
ReadJsonKeepsPartial(i, parsed, data) ==
    /\ pc[i] = "json"
    /\ IF parsed
       THEN Success(i, data)
       ELSE \E body \in PageBodies(tasks[i], total) :
                /\ body.has_products
                /\ sem' = sem + 1
                /\ holders' = holders \ {i}
                /\ log' = [log EXCEPT ![i] = Append(@, "ok")]
                /\ served' = [served EXCEPT ![i] = body]
                /\ result' = [result EXCEPT ![i] = ParseBodyDropsLast(body)]
                /\ pc' = [pc EXCEPT ![i] = "returned"]
                /\ completed' = Append(completed, i)
                /\ UNCHANGED << mainVars, attempt >>

\* resp.json of task i ends: it returns the body `data`, or an exception (of
\* resp.json, or of parse_product on a record) makes the attempt a failed one.
ReadJson(i, parsed, data) ==
    /\ pc[i] = "json"
    /\ IF parsed THEN Success(i, data) ELSE FailedAttempt(i)

\* asyncio.sleep(RETRY_DELAY) of task i ends.
Wake(i) ==
    /\ pc[i] = "sleep"
    /\ log' = [log EXCEPT ![i] = Append(@, "delay")]
    /\ Iterate(i)
    /\ UNCHANGED << mainVars, sem, holders, served >>

(* ---- specification ----------------------------------------------------- *)

\* The bodies the upstream can serve task i.
BodiesOf(i) == PageBodies(tasks[i], total)

Next ==
    \/ StartRun
    \/ \E o \in GetOutcomes : MetaGet(o)
    \/ \E body \in MetaBodies : MetaJson(body)
    \/ Consume
    \/ ExitLoop
    \/ WriteCsv
    \/ \E i \in TaskIds : Acquire(i)
    \/ \E i \in TaskIds : \E o \in GetOutcomes : GetResponse(i, o)
    \/ \E i \in TaskIds : \E data \in BodiesOf(i) : ReadJson(i, TRUE, data)
    \/ \E i \in TaskIds : ReadJson(i, FALSE, NoBody)
    \/ \E i \in TaskIds : Wake(i)

Spec == Init /\ [][Next]_vars

\* Every network call and every retry delay ends, and the event loop runs
\* whatever is ready: a step is taken whenever one is possible.
FairSpec == Spec /\ WF_vars(Next)

(* ---- the end-to-end scenario -------------------------------------------- *)

\* The scenario of three pages under a semaphore of two permits: the catalogue
\* has 2 * PER_PAGE + 1 records, page 2 fails its first two attempts and then
\* succeeds, pages 1 and 3 succeed on their first attempt.
ScenarioItems == 2 * PER_PAGE + 1

ScenarioInit == InitWith(2)

\* In the scenario, the attempt task i is making fails.
ScenarioFails(i) == tasks[i] = 2 /\ attempt[i] <= 2

ScenarioNext ==
    \/ StartRun
    \/ MetaGet("200")
    \/ MetaJson([kind |-> "total", items |-> ScenarioItems])
    \/ Consume
    \/ ExitLoop
    \/ WriteCsv
    \/ \E i \in TaskIds : Acquire(i)
    \/ \E i \in TaskIds : \E o \in GetOutcomes :
           /\ ScenarioFails(i) \/ o = "200"
           /\ GetResponse(i, o)
    \/ \E i \in TaskIds : \E data \in BodiesOf(i) :
           ~ScenarioFails(i) /\ ReadJson(i, TRUE, data)
    \/ \E i \in TaskIds : ScenarioFails(i) /\ ReadJson(i, FALSE, NoBody)
    \/ \E i \in TaskIds : Wake(i)

ScenarioSpec == ScenarioInit /\ [][ScenarioNext]_vars /\ WF_vars(ScenarioNext)

(* ---- the page count over a range of totals ------------------------------ *)

\* The largest of the consecutive item counts the metadata response reports.
MaxTotal == 120

\* The item counts reported: every one from 0 to MaxTotal, and the size of the
\* full catalogue.
ReportedTotals == 0..MaxTotal \cup {62633}

\* main up to the creation of the coroutines, the metadata response arriving
\* with any of the reported totals.
PageCountNext ==
    \/ StartRun
    \/ MetaGet("200")
    \/ \E t \in ReportedTotals : MetaJson([kind |-> "total", items |-> t])

PageCountSpec == Init /\ [][PageCountNext]_vars

(* ---- a run long enough to report progress ------------------------------ *)

\* The page count of the long catalogue.
LongPages == 101

\* The smallest total giving LongPages pages.
LongItems == (LongPages - 1) * PER_PAGE + 1

\* The run is over the long catalogue.
Long == total_pages > MaxPages

\* The runs of Next, and the run over the long catalogue, in which every
\* attempt succeeds with a full body and the pages complete one after the
\* other in page order.
ProgressNext ==
    \/ StartRun
    \/ \E o \in GetOutcomes : MetaGet(o)
    \/ \E body \in MetaBodies \cup {[kind |-> "total", items |-> LongItems]} :
           MetaJson(body)
    \/ Consume
    \/ ExitLoop
    \/ WriteCsv
    \/ \E i \in TaskIds : (Long => i = done + 1) /\ Acquire(i)
    \/ \E i \in TaskIds : \E o \in GetOutcomes :
           (Long => o = "200") /\ GetResponse(i, o)
    \/ \E i \in TaskIds : \E data \in BodiesOf(i) :
           (Long => data.has_products) /\ ReadJson(i, TRUE, data)
    \/ \E i \in TaskIds : ~Long /\ ReadJson(i, FALSE, NoBody)
    \/ \E i \in TaskIds : Wake(i)

ProgressSpec == Init /\ [][ProgressNext]_vars

(* ---- what the claims speak of ------------------------------------------ *)

Range(f) == {f[k] : k \in DOMAIN f}

\* The tasks that are in their network call.
Calling == {i \in TaskIds : InCall(i)}

\* Task i has had a successful attempt.
Succeeded(i) == "ok" \in Range(log[i])

\* Task i has returned after failing every attempt.
Exhausted(i) == pc[i] = "returned" /\ ~Succeeded(i)

\* The number of network calls task i has made.
NumCalls(i) == Cardinality({k \in DOMAIN log[i] : log[i][k] = "call"})

\* The events of k failed attempts, each followed by its retry delay.
RECURSIVE FailTrace(_)
FailTrace(k) ==
    IF k = 0 THEN << >> ELSE FailTrace(k - 1) \o << "call", "fail", "delay" >>

\* The number of failed attempts task i has made.
NumFails(i) == Cardinality({k \in DOMAIN log[i] : log[i][k] = "fail"})

\* The number of retry delays task i has slept through.
NumDelays(i) == Cardinality({k \in DOMAIN log[i] : log[i][k] = "delay"})

\* f[1] + ... + f[n]
RECURSIVE SumTo(_, _)
SumTo(f, n) == IF n = 0 THEN 0 ELSE SumTo(f, n - 1) + f[n]

\* The number of outcomes the loop has consumed so far.
Consumed == SumTo(taken, Len(taken))

\* The output records of the response body `data`: one per raw record, in the
\* body's order.
RecordsOf(data) ==
    [j \in 1..Len(data.products) |-> parse_product(data.products[j])]

\* The identifiers of the upstream's records of the page of task i.
IdsOf(i) == {r.id : r \in Range(RawPage(tasks[i], total))}

\* What is in `rs` of the page of task i, in the order of rs.
Contribution(i, rs) == SelectSeq(rs, LAMBDA r : r.id \in IdsOf(i))

(* ---- C1 ------------------------------------------------------------------ *)

\* C1: in every reachable state the fetch attempts inside the semaphore-guarded
\* network call (permit acquired, not yet released) are at most CONCURRENCY.
C1_AtMostConcurrencyInCall ==
    /\ Cardinality(holders) <= CONCURRENCY
    /\ Calling \subseteq holders
    /\ Cardinality(Calling) <= CONCURRENCY

\* All CONCURRENCY permits are in use and another task waits at the gate.
C1_Witness ==
    /\ Cardinality(Calling) = CONCURRENCY
    /\ \E i \in TaskIds : pc[i] = "acquire"

(* ---- C2 ------------------------------------------------------------------ *)

\* C2: main creates exactly one task per page index in 1..total_pages, and the
\* loop consumes the outcome of each task exactly once: when the loop is over,
\* total_pages outcomes have been consumed, one per page index.
C2_OneOutcomePerPage ==
    phase \in {"Fetching", "Aggregating", "Done"} =>
        /\ Len(tasks) = total_pages
        /\ \A page \in 1..total_pages :
               Cardinality({i \in TaskIds : tasks[i] = page}) = 1
        /\ \A i \in TaskIds : taken[i] <= 1
        /\ phase \in {"Aggregating", "Done"} =>
               /\ \A i \in TaskIds : taken[i] = 1
               /\ done = total_pages

\* A run of several pages, one of them exhausted, is over.
C2_Witness ==
    /\ phase = "Done"
    /\ total_pages >= 2
    /\ \E i \in TaskIds : Exhausted(i)

(* ---- C3 ------------------------------------------------------------------ *)

\* C3: a page whose every attempt fails has made exactly RETRY_LIMIT network
\* calls when it returns, one retry delay between consecutive calls; it
\* returns the empty list and nothing of it is in the final collection.
C3_ExhaustedPage ==
    \A i \in TaskIds :
        Exhausted(i) =>
            /\ log[i] = FailTrace(RETRY_LIMIT - 1) \o << "call", "fail" >>
            /\ NumCalls(i) = RETRY_LIMIT
            /\ result[i] = << >>
            /\ Contribution(i, rows) = << >>
            /\ Contribution(i, sink.rows) = << >>

\* An exhausted page of a non-empty page has been consumed and the run is over.
C3_Witness ==
    /\ phase = "Done"
    /\ \E i \in TaskIds : Exhausted(i) /\ taken[i] = 1 /\ IdsOf(i) # {}

(* ---- C4 ------------------------------------------------------------------ *)

\* C4: a page that fails attempts 1..k (0 <= k < RETRY_LIMIT) and succeeds on
\* attempt k+1 makes exactly k+1 network calls, none after the success, and
\* contributes exactly the records of the successful response.
C4_SuccessAfterFailures ==
    \A i \in TaskIds :
        Succeeded(i) =>
            /\ \E k \in 0..(RETRY_LIMIT - 1) :
                   /\ log[i] = FailTrace(k) \o << "call", "ok" >>
                   /\ NumCalls(i) = k + 1
            /\ pc[i] = "returned"
            /\ result[i] = RecordsOf(served[i])
            /\ taken[i] = 1 => Contribution(i, rows) = RecordsOf(served[i])

\* A page has succeeded on its last attempt, and its records were consumed.
C4_Witness ==
    \E i \in TaskIds :
        /\ log[i] = FailTrace(RETRY_LIMIT - 1) \o << "call", "ok" >>
        /\ taken[i] = 1
        /\ Contribution(i, rows) # << >>

(* ---- C5 ------------------------------------------------------------------ *)

\* C5: a task sleeping out its retry delay holds no permit.
C5_SleeperHoldsNoPermit ==
    \A i \in TaskIds : pc[i] = "sleep" => i \notin holders

\* CONCURRENCY pages are in their network call while another page sleeps.
C5_Witness ==
    \E s \in TaskIds :
        /\ pc[s] = "sleep"
        /\ Cardinality(Calling \ {s}) = CONCURRENCY

(* ---- C6 ------------------------------------------------------------------ *)

\* C6: a page failure never aborts the run (the run aborts only before any task
\* exists), and when the run is Done the collection written holds, of every
\* page that succeeded, its records in full, and nothing else.
C6_FailureIsPageLocal ==
    /\ phase = "Aborted" => tasks = << >> /\ ~sink.written
    /\ phase = "Done" =>
        /\ \A i \in TaskIds :
               Contribution(i, sink.rows) =
                   IF Succeeded(i) THEN RecordsOf(served[i]) ELSE << >>
        /\ \A r \in Range(sink.rows) : \E i \in TaskIds : r.id \in IdsOf(i)

\* The run is Done with an exhausted page and a page whose records are in.
C6_Witness ==
    /\ phase = "Done"
    /\ \E i \in TaskIds : Exhausted(i) /\ IdsOf(i) # {}
    /\ \E i \in TaskIds : Succeeded(i) /\ Contribution(i, sink.rows) # << >>

(* ---- C7 ------------------------------------------------------------------ *)

\* C7: when the metadata request of get_total_pages fails, by an exception of
\* session.get or by a status other than 200, the step that ends the
\* resolution aborts the run: no task is created and nothing is written.  (A
\* failure by the body aborts too; `resp` does not show it.)
C7_MetaFailureAborts ==
    [][ (phase = "Resolving" /\ phase' # "Resolving" /\ resp # "200")
            => (phase' = "Aborted" /\ tasks' = << >> /\ ~sink'.written) ]_vars

(* ---- C8 ------------------------------------------------------------------ *)

\* C8: once the page count is resolved, the run reaches Done: every task has
\* returned its outcome and the Sink is written.
C8_EventuallyDone ==
    (phase = "Fetching") ~>
        (/\ phase = "Done"
         /\ sink.written
         /\ \A i \in TaskIds : pc[i] = "returned")

\* A run of more pages than permits is Done, one of its pages exhausted.
C8_Witness ==
    /\ phase = "Done"
    /\ sink.written
    /\ Len(tasks) > CONCURRENCY
    /\ \E i \in TaskIds : Exhausted(i)

(* ---- C9 ------------------------------------------------------------------ *)

SeqToBag(s) == [x \in Range(s) |-> Cardinality({k \in DOMAIN s : s[k] = x})]

\* The collection of the run that consumes the first n tasks in page order:
\* it depends only on what the upstream served each page.
RECURSIVE RefRows(_)
RefRows(n) ==
    IF n = 0 THEN << >>
    ELSE RefRows(n - 1)
             \o (IF Succeeded(n) THEN RecordsOf(served[n]) ELSE << >>)

\* C9: the final collection equals, as a multiset, the collection of the run
\* in page order over the same upstream behaviour; so two runs that differ
\* only in scheduling end with collections equal as multisets.
C9_ScheduleIndependent ==
    phase = "Done" => SeqToBag(sink.rows) = SeqToBag(RefRows(Len(tasks)))

\* A run is Done whose collection is in another order than the page order.
C9_Witness ==
    /\ phase = "Done"
    /\ sink.rows # RefRows(Len(tasks))
    /\ Cardinality({i \in TaskIds : Contribution(i, sink.rows) # << >>}) >= 2

(* ---- C10 ----------------------------------------------------------------- *)

\* C10: in the scenario every execution ends Done with as many records as the
\* three pages' responses hold together, page 2 having made 3 network calls
\* and pages 1 and 3 one each.
C10_Scenario ==
    <>[](/\ phase = "Done"
         /\ sink.written
         /\ Len(tasks) = 3
         /\ Len(sink.rows) = Len(RecordsOf(served[1]))
                               + Len(RecordsOf(served[2]))
                               + Len(RecordsOf(served[3]))
         /\ NumCalls(1) = 1 /\ NumCalls(2) = 3 /\ NumCalls(3) = 1)

\* Pages 1 and 3 are both in flight while page 2 sleeps out a retry delay.
C10_Witness ==
    /\ Len(tasks) = 3
    /\ pc[2] = "sleep"
    /\ InCall(1)
    /\ InCall(3)

(* ---- C11 ----------------------------------------------------------------- *)

\* C11: for every total >= 0, get_total_pages returns ceil(total / PER_PAGE):
\* the least n with n * PER_PAGE >= total.  A total of 62633 gives 2610 pages,
\* a total of 0 gives 0 pages.
C11_PageCountIsCeiling ==
    phase = "Fetching" =>
        /\ total_pages \in Nat
        /\ total_pages * PER_PAGE >= total
        /\ \A n \in 0..(total_pages - 1) : n * PER_PAGE < total
        /\ total = 62633 => total_pages = 2610
        /\ total = 0 => total_pages = 0

\* The page count of the full catalogue has been resolved.
C11_Witness == phase = "Fetching" /\ total = 62633 /\ total_pages = 2610

(* ---- C12 ----------------------------------------------------------------- *)

\* d tenths of a percent is (1 - retail / old) * 100 rounded to one decimal:
\* no tenth is nearer to (old - retail) * 1000 / old than d.
IsRoundedDiscount(d, retail, old) ==
    LET diff == d * old - (old - retail) * 1000
    IN  2 * (IF diff < 0 THEN 0 - diff ELSE diff) <= old

\* C12: parse_product sets discount_pct to round((1 - retail / old) * 100, 1)
\* whenever both prices are present and old > retail, and to 0.0 otherwise;
\* retail 80 and old 100 give 20.0, retail 100 and old 80 give 0.0.  This
\* holds for every pair of present non-negative prices, a retail price of 0
\* included.
C12_DiscountPct ==
    \A i \in TaskIds : \A r \in Range(result[i]) :
        /\ IF r.retail_price.some /\ r.old_price.some
              /\ r.old_price.v > r.retail_price.v
           THEN IsRoundedDiscount(r.discount_pct, r.retail_price.v,
                                  r.old_price.v)
           ELSE r.discount_pct = 0
        /\ (r.retail_price = Price(80) /\ r.old_price = Price(100))
               => r.discount_pct = 200
        /\ (r.retail_price = Price(100) /\ r.old_price = Price(80))
               => r.discount_pct = 0

(* ---- C13 ----------------------------------------------------------------- *)

\* C13: the completed counter `done` starts at 0, goes up by exactly 1 with
\* each consumed outcome and never down, stays within 0..total_pages, always
\* equals the number of outcomes consumed so far, and equals total_pages in
\* Done; Done is not entered while a created task has not produced its
\* outcome.
C13_CompletedCounter ==
    /\ [](/\ done \in 0..total_pages
          /\ done = Consumed
          /\ phase \in {"Idle", "Resolving"} => done = 0
          /\ phase = "Done" =>
                 /\ done = total_pages
                 /\ \A i \in TaskIds : pc[i] = "returned")
    /\ [][ \/ done' = done /\ Consumed' = Consumed
           \/ done' = done + 1 /\ Consumed' = Consumed + 1 ]_vars

\* The run is Done with every one of MaxPages outcomes counted.
C13_Witness == phase = "Done" /\ total_pages = MaxPages /\ done = MaxPages

(* ---- C14 ----------------------------------------------------------------- *)

\* C14: every acquired permit is released as soon as its network call is
\* over, on every exit path: in every reachable state the free permits plus
\* the permits held by the tasks in a network call are CONCURRENCY, a returned
\* task holds no permit, and in Done all CONCURRENCY permits are free.
C14_PermitsConserved ==
    /\ sem \in 0..CONCURRENCY
    /\ holders = Calling
    /\ sem + Cardinality(Calling) = CONCURRENCY
    /\ \A i \in TaskIds : pc[i] = "returned" => i \notin holders
    /\ phase = "Done" => sem = CONCURRENCY /\ holders = {}

\* A task that failed an attempt and then returned its list holds no permit
\* while another task, the only holder, is in its network call.
C14_Witness ==
    \E i, k \in TaskIds :
        /\ "fail" \in Range(log[i])
        /\ Succeeded(i) /\ pc[i] = "returned"
        /\ InCall(k)
        /\ holders = {k}
        /\ sem = CONCURRENCY - 1

(* ---- C15 ----------------------------------------------------------------- *)

\* This step ends a network call of task i without a returned list.
FailedStep(i) ==
    /\ InCall(i)
    /\ pc'[i] \notin {"get", "json"}
    /\ ~Succeeded(i)'

\* This step handles a failed attempt of task i: nothing reaches main, one
\* of the RETRY_LIMIT attempts is used up, and rows and done are as before.
FailureHandled(i) ==
    /\ phase' = phase
    /\ rows' = rows /\ done' = done /\ sink' = sink
    /\ log'[i] = Append(log[i], "fail")
    /\ NumFails(i)' = attempt[i]
    /\ attempt[i] <= RETRY_LIMIT
    /\ IF attempt[i] < RETRY_LIMIT
       THEN pc'[i] = "sleep" /\ attempt'[i] = attempt[i]
       ELSE pc'[i] = "returned" /\ result'[i] = << >>

\* C15: every kind of failed attempt in fetch_page (a non-200 status, a
\* transport error or timeout, a failure to parse the body) is handled the
\* same way: it does not propagate out of fetch_page, it uses up one of the
\* RETRY_LIMIT attempts, and it leaves rows and done unchanged.
C15_FailuresHandledAlike ==
    /\ [][ \A i \in TaskIds :
               ( \/ GetResponse(i, "http")
                 \/ GetResponse(i, "error")
                 \/ ReadJson(i, FALSE, NoBody) ) => FailedStep(i) ]_vars
    /\ [][ \A i \in TaskIds : FailedStep(i) => FailureHandled(i) ]_vars

\* A task sleeps after its second failed attempt, one outcome of another task
\* already appended to rows.
C15_Witness ==
    \E i \in TaskIds :
        /\ pc[i] = "sleep"
        /\ NumFails(i) = 2
        /\ done = 1
        /\ rows # << >>

(* ---- C16 ----------------------------------------------------------------- *)

\* This step is a step of the fetch_page coroutine of task i: the acquire, the
\* end of session.get or of resp.json (the release with it), the end of the
\* retry delay, the return.
FetchStep(i) ==
    \/ Acquire(i)
    \/ \E o \in GetOutcomes : GetResponse(i, o)
    \/ \E data \in BodiesOf(i) : ReadJson(i, TRUE, data)
    \/ ReadJson(i, FALSE, NoBody)
    \/ Wake(i)

\* C16: rows and done are written only by the consuming loop of main, never
\* by a fetch task: every step of fetch_page leaves rows and done unchanged,
\* and the outcome of each task is appended to rows exactly once.
C16_OnlyLoopWritesRows ==
    /\ [][ \A i \in TaskIds :
               FetchStep(i) => (rows' = rows /\ done' = done) ]_vars
    /\ [][ (rows' # rows \/ done' # done) =>
               /\ phase = "Fetching" /\ completed # << >>
               /\ rows' = rows \o result[Head(completed)]
               /\ done' = done + 1
               /\ taken'[Head(completed)] = 1
               /\ pc' = pc /\ result' = result ]_vars
    /\ [](\A i \in TaskIds :
              /\ taken[i] <= 1
              /\ Contribution(i, rows) =
                     IF taken[i] = 1 THEN result[i] ELSE << >>
              /\ phase \in {"Aggregating", "Done"} => taken[i] = 1)

\* One task's list is in rows; another task has returned a list of records,
\* which waits for the loop and is not in rows.
C16_Witness ==
    \E i, j \in TaskIds :
        /\ taken[i] = 1 /\ result[i] # << >> /\ rows = result[i]
        /\ pc[j] = "returned" /\ taken[j] = 0 /\ result[j] # << >>
        /\ j \in Range(completed)

(* ---- C17 ----------------------------------------------------------------- *)

\* The moves of the run from one phase to the next: the order Idle, Resolving,
\* Fetching, Aggregating, Done, and the abort of the page-count resolution.
PhaseMoves ==
    { << "Idle", "Resolving" >>, << "Resolving", "Fetching" >>,
      << "Fetching", "Aggregating" >>, << "Aggregating", "Done" >>,
      << "Resolving", "Aborted" >> }

\* C17: the run moves through its phases only in the order Idle, Resolving,
\* Fetching, Aggregating, Done and never backwards; no page-fetch attempt is
\* made before the page-count resolution has returned; total_pages is computed
\* once and never changes afterwards; no failed terminal state is reachable
\* from Fetching.
C17_PhaseOrder ==
    /\ [][ phase' # phase => << phase, phase' >> \in PhaseMoves ]_vars
    /\ [](phase \in {"Idle", "Resolving", "Aborted"} =>
              /\ tasks = << >> /\ log = << >>
              /\ sem = CONCURRENCY /\ total_pages = 0)
    /\ [](\A i \in TaskIds :
              log[i] # << >> => phase \in {"Fetching", "Aggregating", "Done"})
    /\ [][ total_pages' # total_pages =>
               phase = "Resolving" /\ phase' = "Fetching" ]_vars
    /\ [][ (phase \in {"Fetching", "Aggregating", "Done"}) =>
               /\ phase' # "Aborted"
               /\ total_pages' = total_pages /\ tasks' = tasks ]_vars

\* The run is Done, a page among its MaxPages pages having failed every
\* attempt on the way.
C17_Witness ==
    /\ phase = "Done"
    /\ total_pages = MaxPages
    /\ \E i \in TaskIds : Exhausted(i)

(* ---- C18 ----------------------------------------------------------------- *)

\* C18: the write to the sink happens exactly once in a successful run, only
\* after all total_pages outcomes have been consumed (done = total_pages), and
\* it receives the whole accumulated collection: every record of every
\* consumed outcome, nothing added or removed between the last consumption and
\* the write.
C18_SinkWrittenOnce ==
    /\ [][ (WriteCsv \/ sink' # sink) =>
               /\ phase = "Aggregating" /\ phase' = "Done"
               /\ ~sink.written /\ sink'.written
               /\ done = total_pages
               /\ \A i \in TaskIds : taken[i] = 1
               /\ sink'.rows = rows /\ rows' = rows ]_vars
    /\ [][ (phase \in {"Aggregating", "Done"}) =>
               (rows' = rows /\ done' = done) ]_vars
    /\ [](sink.written <=> phase = "Done")
    /\ [](phase = "Done" =>
              /\ sink.rows = rows
              /\ \A i \in TaskIds : Contribution(i, sink.rows) = result[i]
              /\ Len(sink.rows) =
                     SumTo([i \in TaskIds |-> Len(result[i])], Len(tasks)))

\* The sink holds the records of every page of a catalogue of MaxPages pages.
C18_Witness ==
    /\ phase = "Done"
    /\ sink.written
    /\ total_pages = MaxPages
    /\ Len(sink.rows) = total

(* ---- C19 ----------------------------------------------------------------- *)

\* The number of failed attempts among the first k events of task i.
FailsUpTo(i, k) == Cardinality({j \in 1..k : log[i][j] = "fail"})

\* C19: the retry delay is taken only after a failed attempt whose number is
\* below RETRY_LIMIT: a page that always fails sleeps exactly RETRY_LIMIT - 1
\* times, there is no delay after the last failed attempt before the empty
\* result is returned, and none after a successful attempt.
C19_DelayOnlyBetweenAttempts ==
    \A i \in TaskIds :
        LET l == log[i]
            n == Len(l)
        IN  /\ \A k \in 1..n :
                   l[k] = "delay" =>
                       /\ k > 1 /\ l[k - 1] = "fail"
                       /\ FailsUpTo(i, k) < RETRY_LIMIT
                       /\ k < n => l[k + 1] = "call"
            /\ \A k \in 1..n :
                   (l[k] = "fail" /\ k < n) =>
                       (FailsUpTo(i, k) < RETRY_LIMIT /\ l[k + 1] = "delay")
            /\ \A k \in 1..n : l[k] = "ok" => k = n
            /\ pc[i] = "sleep" =>
                   (l[n] = "fail" /\ NumFails(i) < RETRY_LIMIT)
            /\ Exhausted(i) =>
                   /\ NumFails(i) = RETRY_LIMIT
                   /\ NumDelays(i) = RETRY_LIMIT - 1
                   /\ l[n] = "fail"
            /\ Succeeded(i) =>
                   /\ pc[i] = "returned"
                   /\ NumDelays(i) = NumFails(i)
                   /\ NumFails(i) < RETRY_LIMIT

\* A page has returned after RETRY_LIMIT failed attempts and RETRY_LIMIT - 1
\* delays, and another has returned its list after one failure and one delay.
C19_Witness ==
    \E i, j \in TaskIds :
        /\ Exhausted(i) /\ NumDelays(i) = RETRY_LIMIT - 1
        /\ Succeeded(j) /\ NumDelays(j) = 1

(* ---- C20 ----------------------------------------------------------------- *)

\* The last progress line printed.
LastLine == progress[Len(progress)]

\* C20: a progress line is printed after consuming an outcome exactly when
\* the completed count is a multiple of 100 or equals total_pages; for
\* total_pages >= 1 the last consumed outcome always prints a line, whose
\* completed count and record count are the final total_pages and the size of
\* the final collection.
C20_ProgressLines ==
    /\ [][ done' # done =>
               /\ done' = done + 1
               /\ IF (\E k \in 1..done' : done' = 100 * k)
                     \/ done' = total_pages
                  THEN progress' =
                           Append(progress, [done        |-> done',
                                             total_pages |-> total_pages,
                                             products    |-> Len(rows')])
                  ELSE progress' = progress ]_vars
    /\ [][ done' = done => progress' = progress ]_vars
    /\ []((phase \in {"Aggregating", "Done"} /\ total_pages >= 1) =>
              /\ progress # << >>
              /\ LastLine.done = total_pages
              /\ LastLine.total_pages = total_pages
              /\ LastLine.products = Len(rows))
    /\ []((phase = "Done" /\ total_pages >= 1) =>
              LastLine.products = Len(sink.rows))

\* The long run is Done: lines were printed at 100 pages and at the last
\* page, the last one with the size of the written collection.
C20_Witness ==
    /\ phase = "Done"
    /\ total_pages = LongPages
    /\ Len(progress) = 2
    /\ progress[1].done = 100
    /\ progress[1].products = 100 * PER_PAGE
    /\ LastLine.done = LongPages
    /\ LastLine.products = LongItems

(* ---- C21 ----------------------------------------------------------------- *)

\* The identifiers of the records rs, in their order.
IdSeq(rs) == [k \in 1..Len(rs) |-> rs[k].id]

\* rs is the whole page of task i: one record for each raw record the
\* upstream holds for the page, in the upstream's order.
WholePage(i, rs) == IdSeq(rs) = IdSeq(RawPage(tasks[i], total))

\* The number of successful attempts task i has made.
NumOks(i) == Cardinality({k \in DOMAIN log[i] : log[i][k] = "ok"})

\* C21: the contribution of a page is all or nothing.  A failure while reading
\* or transforming the records of a 200 response discards the whole attempt
\* and counts it as failed; each page contributes the complete transformed
\* list of exactly one successful response or no record at all, never a part
\* of a page and never the records of two attempts.
C21_AllOrNothing ==
    /\ [][ \A i \in TaskIds :
               ReadJson(i, FALSE, NoBody) =>
                   /\ pc[i] = "json"
                   /\ result'[i] = << >> /\ served'[i] = NoBody
                   /\ NumFails(i)' = NumFails(i) + 1
                   /\ NumOks(i)' = 0
                   /\ rows' = rows ]_vars
    /\ [](\A i \in TaskIds :
              /\ NumOks(i) <= 1
              /\ result[i] = << >> \/ (NumOks(i) = 1 /\ WholePage(i, result[i]))
              /\ Contribution(i, rows) = << >>
                     \/ ( /\ NumOks(i) = 1
                          /\ WholePage(i, Contribution(i, rows))
                          /\ Contribution(i, rows) = result[i] ))
    /\ [](Len(rows) = SumTo([i \in TaskIds |-> Len(Contribution(i, rows))],
                            Len(tasks)))

\* A page whose earlier attempt failed has its whole page in rows, and the
\* records of another page, all of whose attempts failed, are absent.
C21_Witness ==
    \E i, j \in TaskIds :
        /\ NumFails(i) >= 1 /\ NumOks(i) = 1
        /\ Contribution(i, rows) # << >>
        /\ WholePage(i, Contribution(i, rows))
        /\ Exhausted(j) /\ taken[j] = 1
        /\ rows = result[i]

(* ---- C22 ----------------------------------------------------------------- *)

\* The metadata requests sent so far: get_total_pages sends its request on the
\* step that leaves Idle.
MetaRequests == IF phase = "Idle" THEN 0 ELSE 1

\* The page requests sent so far, of all tasks.
PageRequests == SumTo([i \in TaskIds |-> NumCalls(i)], Len(tasks))

\* C22: the metadata request is issued exactly once, outside the concurrency
\* gate and strictly before any page task exists, and its response body is not
\* reused: page 1 is requested again by its own task, so that a successful run
\* issues between total_pages + 1 and 1 + total_pages * RETRY_LIMIT requests;
\* the metadata call never overlaps a gated page call.
C22_MetadataRequestOnce ==
    /\ [][ StartRun =>
               /\ phase = "Idle" /\ phase' = "Resolving"
               /\ tasks = << >> /\ tasks' = << >>
               /\ sem = CONCURRENCY /\ sem' = sem
               /\ holders' = {} ]_vars
    /\ [][ (phase # "Idle") => phase' # "Idle" ]_vars
    /\ [](phase = "Resolving" =>
              (tasks = << >> /\ holders = {} /\ sem = CONCURRENCY))
    /\ [](Calling # {} => (phase = "Fetching" /\ resp = "none"))
    /\ [][ (phase = "Resolving" /\ phase' = "Fetching") =>
               \A i \in DOMAIN tasks' :
                   /\ pc'[i] = "acquire"
                   /\ result'[i] = << >> /\ log'[i] = << >> ]_vars
    /\ [](\A i \in TaskIds : pc[i] = "returned" => NumCalls(i) >= 1)
    /\ [](phase = "Done" =>
              /\ MetaRequests = 1
              /\ \A i \in TaskIds : tasks[i] = 1 => NumCalls(i) >= 1
              /\ MetaRequests + PageRequests >= total_pages + 1
              /\ MetaRequests + PageRequests
                     <= 1 + total_pages * RETRY_LIMIT)

\* A run is Done after two requests, one for the metadata and one of the task
\* of page 1.
C22_Witness ==
    /\ phase = "Done"
    /\ total_pages = 1
    /\ \E i \in TaskIds : tasks[i] = 1 /\ NumCalls(i) = 1
    /\ MetaRequests + PageRequests = total_pages + 1

(* ---- C23 ----------------------------------------------------------------- *)

\* The page count was resolved to 0.
NoPages ==
    phase \in {"Fetching", "Aggregating", "Done"} /\ total_pages = 0

\* C23: when total_pages is resolved to 0 (a total of 0 items), the run
\* creates no fetch task, acquires no permit and prints no progress line, and
\* it still reaches Done with the sink written once, with an empty collection.
C23_EmptyCatalogue ==
    /\ [](NoPages =>
              /\ total = 0
              /\ tasks = << >> /\ pc = << >> /\ log = << >>
              /\ sem = CONCURRENCY /\ holders = {}
              /\ progress = << >>
              /\ rows = << >> /\ done = 0
              /\ sink.rows = << >>
              /\ sink.written <=> phase = "Done")
    /\ [][ (NoPages /\ sink' # sink) =>
               (~sink.written /\ sink' = [written |-> TRUE, rows |-> << >>])
       ]_vars
    /\ (NoPages ~> (phase = "Done" /\ sink.written /\ sink.rows = << >>))

\* The run over the empty catalogue is Done, its sink written and empty.
C23_Witness ==
    /\ NoPages
    /\ phase = "Done"
    /\ sink = [written |-> TRUE, rows |-> << >>]
    /\ progress = << >>

====
